---- MODULE Spec2Model ----
(***************************************************************************)
(* OIDC authorization-code-with-PKCE handshake of the SubclipStarter       *)
(* Electron client (src/main/main.ts) and the cross-context parameter      *)
(* relay of the web authorization server (nextjs-web sign-in and consent   *)
(* pages).                                                                 *)
(*                                                                         *)
(* SpecAuth and SpecRedeliver drive the Electron main process              *)
(* (start-oidc-auth, protocol callbacks, token exchange); SpecRelay and    *)
(* SpecConsent drive the browser side (sign-in page store, consent page    *)
(* retrieve, consent submission).  Asynchronous handlers are cut at their  *)
(* awaits.                                                                 *)
(***************************************************************************)
EXTENDS Integers, Sequences, FiniteSets, TLC

\* ------------------------------------------------------------------------
\* Bounds of the model
\* ------------------------------------------------------------------------
\* start-oidc-auth invocations and callback deliveries of SpecAuth
MaxStarts == 1
MaxCallbacks == 1
\* callback deliveries of SpecRedeliver
MaxDeliveries == 2
\* overlapping start-oidc-auth invocations of SpecOverlap
MaxOverlap == 2
\* browser clock, in minutes, and runs of the sign-in page's effect
MaxTime == 6
MaxStores == 2

\* VideoService calls
MaxConversions == 3

\* handleVideoSelect and handleStartConversion invocations
MaxSelects == 2
MaxAppConversions == 2
\* invocations of the handler a specification is not about
MaxOthers == 1

\* chat threads and POST requests
MaxThreads == 2
MaxPosts == 2

\* ------------------------------------------------------------------------
\* JavaScript values
\* ------------------------------------------------------------------------
\* JS null (URLSearchParams.get / localStorage.getItem of a missing key)
Null == "<null>"
\* JS undefined (missing property, optional chain on a null mainWindow)
Undefined == "<undefined>"

\* JS truthiness of a string-or-nullish value: null, undefined and "" are falsy
Truthy(v) == v # Null /\ v # Undefined /\ v # ""

\* String conversion as done by a template literal `${v}` and by
\* URLSearchParams for a record value
ToStr(v) == IF v = Undefined THEN "undefined" ELSE IF v = Null THEN "null" ELSE v

REDIRECT_URI == "subclipstarter://auth/callback"
\* prefix tested by the second-instance handler
SchemePrefix == "subclipstarter://"

VARIABLES
    mainWindow,     \* TRUE once createWindow has run (let mainWindow: BrowserWindow | null)
    localStorage,   \* renderer localStorage: pkce_verifier, oidc_client_id, oidc_client_secret
    starts,         \* start-oidc-auth invocations in order of invocation: position and locals
    callbacks,      \* delivered protocol callbacks in order of delivery: position and locals
    issuedState,    \* state parameter of the most recently built authorization URL
    forwarded,      \* command lines of second launches not yet seen by 'second-instance'
    effect          \* what the last step did to the outside: request made, message sent, ...

VARIABLES
    now,            \* Date.now() of the browser, in minutes
    storage,        \* web-origin localStorage value under the key oauth_params
    timers,         \* deadlines of the removal timers armed by the sign-in page
    stores,         \* number of runs of the sign-in page's effect so far
    lastStored,     \* record of the latest store, until a retrieve or a consent clears the key
    page,           \* the consent page component: URL parameters, state, handleConsent position
    webEffect       \* what the last step of the browser side did

VARIABLES
    listeners,          \* functions registered on ipcRenderer for 'conversion-progress'
    activeConversions,  \* keys of the main process's Map conversionId -> sender window
    services,           \* VideoService calls in order of call: position, caller, result
    app,                \* state of the renderer App component
    selects,            \* handleVideoSelect invocations in order of invocation
    conversions,        \* handleStartConversion invocations in order of invocation
    videoEffect         \* what the last step of the video side did

VARIABLES
    chatThreads,        \* rows of chat_threads; the id of a thread is its position
    chatMessages,       \* rows of chat_messages
    chatClock,          \* time of the latest write of an updatedAt
    posts,              \* POST requests in order of arrival: position and locals
    chatEffect          \* what the last step of the chat API did

webVars == <<now, storage, timers, stores, lastStored, page, webEffect>>

videoVars == <<listeners, activeConversions, services, app, selects, conversions, videoEffect>>

chatVars == <<chatThreads, chatMessages, chatClock, posts, chatEffect>>

authVars == <<mainWindow, localStorage, starts, callbacks, issuedState, forwarded, effect>>

vars == <<authVars, webVars, videoVars, chatVars>>

\* ------------------------------------------------------------------------
\* Inputs
\* ------------------------------------------------------------------------
\* crypto.randomBytes: the i-th invocation draws a fresh verifier and state
VerifierOf(i) == <<"v1", "v2", "v3", "v4">>[i]
StateOf(i) == <<"s1", "s2", "s3", "s4">>[i]
\* SHA-256 challenge of a verifier (one-way, injective on the model's values)
ChallengeOf(v) == <<"S256", v>>
\* Registration endpoint: the i-th request is answered with a fresh client id,
\* of a confidential client (with a client_secret) or of a public one (without)
PublicIds == <<"pub1", "pub2", "pub3", "pub4">>
ConfidentialIds == <<"conf1", "conf2", "conf3", "conf4">>
Secrets == <<"sec1", "sec2", "sec3", "sec4">>
ClientData(i, withSecret) ==
    IF withSecret
    THEN [client_id |-> ConfidentialIds[i], client_secret |-> Secrets[i]]
    ELSE [client_id |-> PublicIds[i], client_secret |-> Undefined]
\* The server's client table: the secret registered for a client id
RegisteredSecret(client_id) ==
    IF \E i \in DOMAIN ConfidentialIds : ConfidentialIds[i] = client_id
    THEN Secrets[CHOOSE i \in DOMAIN ConfidentialIds : ConfidentialIds[i] = client_id]
    ELSE Undefined
RegisteredIds == {PublicIds[i] : i \in DOMAIN PublicIds}
                 \cup {ConfidentialIds[i] : i \in DOMAIN ConfidentialIds}

Url(parses, code, state, error) ==
    [parses |-> parses, code |-> code, state |-> state, error |-> error]

\* Callback URLs the OS may deliver on the custom scheme
CallbackUrls ==
    { Url(TRUE, "abc", "s1", Null),                 \* code and the first issued state
      Url(TRUE, "abc", "sX", Null),                 \* code and a foreign state
      Url(TRUE, Null, Null, "access_denied"),       \* denial
      Url(TRUE, "abc", "s1", "access_denied"),      \* denial that also carries code and state
      Url(TRUE, "abc", Null, Null),                 \* state missing
      Url(TRUE, Null, "s1", Null),                  \* code missing
      Url(TRUE, "", "s1", Null),                    \* code present but empty
      Url(TRUE, "abc", "s1", ""),                   \* error present but empty
      Url(TRUE, Null, Null, Null),                  \* no parameters at all
      Url(FALSE, Null, Null, Null) }                \* new URL(url) throws

\* Arguments a second instance may forward: the executable path, a URL of
\* another scheme, or a URL of the application's scheme
NonUrlArg == [prefix |-> "/Applications/", url |-> Url(FALSE, Null, Null, Null)]
OtherUrlArg == [prefix |-> "https://", url |-> Url(TRUE, "abc", "s1", Null)]
UrlArg(u) == [prefix |-> SchemePrefix, url |-> u]
Argvs ==
    { <<NonUrlArg>>,
      <<NonUrlArg, OtherUrlArg>>,
      <<NonUrlArg, UrlArg(Url(TRUE, "abc", "s1", Null))>>,
      <<NonUrlArg, UrlArg(Url(TRUE, Null, Null, "access_denied"))>>,
      <<NonUrlArg, UrlArg(Url(FALSE, Null, Null, Null))>>,
      <<NonUrlArg, OtherUrlArg, UrlArg(Url(TRUE, "abc", "sX", Null)),
        UrlArg(Url(TRUE, "abc", "s1", Null))>> }

\* Token endpoint answers
TokenResponse(network, status, json, raw, fields) ==
    fields @@ [network |-> network, ok |-> (status = "200"), status |-> status,
               json |-> json, raw |-> raw, access_token |-> Undefined,
               error |-> Undefined, error_description |-> Undefined]
TokenResponses ==
    { TokenResponse(TRUE, "200", TRUE, "{access_token}", [access_token |-> "A"]),
      TokenResponse(TRUE, "200", TRUE, "{}", <<>>),
      TokenResponse(TRUE, "200", FALSE, "<html>", <<>>),
      TokenResponse(TRUE, "400", TRUE, "{error,error_description}",
                    [error |-> "invalid_grant", error_description |-> "code expired"]),
      TokenResponse(TRUE, "400", TRUE, "{error}", [error |-> "invalid_grant"]),
      TokenResponse(TRUE, "500", TRUE, "{}", <<>>),
      TokenResponse(TRUE, "502", FALSE, "Bad Gateway", <<>>),
      TokenResponse(TRUE, "503", FALSE, "", <<>>),
      TokenResponse(FALSE, "", FALSE, "", <<>>) }

\* ------------------------------------------------------------------------
\* Helpers of the main process
\* ------------------------------------------------------------------------
\* Mutant: the message reaches a renderer even without a window
Send_Always(channel, payload) == <<[channel |-> channel, payload |-> payload]>>

\* mainWindow?.webContents.send(channel, payload): the messages that reach the
\* renderer; nothing is sent without a window
Send(channel, payload) ==
    IF mainWindow THEN <<[channel |-> channel, payload |-> payload]>> ELSE <<>>

\* await mainWindow?.webContents.executeJavaScript("localStorage.getItem(key)")
GetItem(key) == IF mainWindow THEN localStorage[key] ELSE Undefined

\* Mutant: the first argument is taken whatever its prefix
FindUrl_Any(argv) == IF argv = <<>> THEN <<>> ELSE <<Head(argv).url>>

\* argv.find((arg) => arg.startsWith("subclipstarter://")): the matching
\* arguments in order; find yields the first, or undefined when there is none
RECURSIVE FindUrl(_)
FindUrl(argv) ==
    IF argv = <<>> THEN <<>>
    ELSE IF Head(argv).prefix = SchemePrefix THEN <<Head(argv).url>>
    ELSE FindUrl(Tail(argv))

\* Mutant: code and state are tested before error
CallbackOutcome_CodeFirst(u) ==
    IF ~u.parses THEN "ParseError"
    ELSE IF Truthy(u.code) /\ Truthy(u.state) THEN "Succeeded"
    ELSE IF Truthy(u.error) THEN "Denied"
    ELSE "Malformed"

\* Mutant: the exchange is started on a code alone
CallbackOutcome_CodeOnly(u) ==
    IF ~u.parses THEN "ParseError"
    ELSE IF Truthy(u.error) THEN "Denied"
    ELSE IF Truthy(u.code) THEN "Succeeded"
    ELSE "Malformed"

\* Branch taken by handleAuthCallback for a URL
CallbackOutcome(u) ==
    IF ~u.parses THEN "ParseError"
    ELSE IF Truthy(u.error) THEN "Denied"
    ELSE IF Truthy(u.code) /\ Truthy(u.state) THEN "Succeeded"
    ELSE "Malformed"

\* Body of the token request built by exchangeCodeForTokens
TokenParams(code, codeVerifier, clientId, clientSecret) ==
    LET base == [grant_type |-> "authorization_code",
                 client_id |-> ToStr(clientId),
                 code |-> code,
                 redirect_uri |-> REDIRECT_URI,
                 code_verifier |-> ToStr(codeVerifier)]
    IN  IF Truthy(clientSecret)
        THEN base @@ [client_secret |-> clientSecret]
        ELSE base

\* A handler that has returned holds nothing
DoneStart == [pc |-> "done", codeVerifier |-> Undefined, codeChallenge |-> <<>>,
              clientId |-> Undefined, clientSecret |-> Undefined]
DoneCallback == [pc |-> "done", code |-> Null, state |-> Null, expected |-> Null,
                 codeVerifier |-> Undefined, clientId |-> Undefined, posts |-> 0]
NoEffect == [kind |-> "none"]

\* app.whenReady().then(createWindow)
createWindow ==
    /\ ~mainWindow
    /\ mainWindow' = TRUE
    /\ effect' = NoEffect
    /\ UNCHANGED <<localStorage, starts, callbacks, issuedState, forwarded>>
    /\ UNCHANGED <<webVars, videoVars, chatVars>>

\* ------------------------------------------------------------------------
\* handleAuthCallback(url), up to the first await of exchangeCodeForTokens
\* ------------------------------------------------------------------------
handleAuthCallback(u, via, argv) ==
    LET outcome == CallbackOutcome(u)
        msgs == CASE outcome = "Denied" -> Send("auth-error", u.error)
                  [] outcome = "Malformed" ->
                         Send("auth-error", "Invalid authorization response")
                  [] outcome = "ParseError" ->
                         Send("auth-error", "Failed to parse authorization response")
                  [] OTHER -> <<>>
    IN  /\ callbacks' = Append(callbacks,
               IF outcome = "Succeeded"
               THEN [pc |-> "readVerifier", code |-> u.code, state |-> u.state,
                     expected |-> issuedState,
                     codeVerifier |-> Undefined, clientId |-> Undefined, posts |-> 0]
               ELSE DoneCallback)
        /\ effect' = [kind |-> "callback", cb |-> Len(callbacks) + 1, url |-> u,
                      via |-> via, argv |-> argv, outcome |-> outcome,
                      expected |-> issuedState,
                      window |-> mainWindow, sent |-> msgs]
        /\ UNCHANGED <<mainWindow, localStorage, starts, issuedState>>
        /\ UNCHANGED <<webVars, videoVars, chatVars>>

\* app.on("open-url"): may arrive before the window exists
OpenUrl ==
    /\ \E u \in CallbackUrls : handleAuthCallback(u, "open-url", <<>>)
    /\ UNCHANGED forwarded

\* Another instance of the application is launched with a command line: its
\* requestSingleInstanceLock() is refused because this instance holds the lock,
\* it calls app.quit(), and Electron hands its command line to this instance
SecondLaunch ==
    \E argv \in Argvs :
        /\ forwarded' = Append(forwarded, argv)
        /\ effect' = [kind |-> "launch", argv |-> argv, gotTheLock |-> FALSE,
                      quit |-> TRUE]
        /\ UNCHANGED <<mainWindow, localStorage, starts, callbacks, issuedState>>
        /\ UNCHANGED <<webVars, videoVars, chatVars>>

\* app.on("second-instance"): emitted after ready with a forwarded command
\* line; handles its first scheme argument
SecondInstance ==
    /\ mainWindow
    /\ forwarded # <<>>
    /\ forwarded' = Tail(forwarded)
    /\ LET argv == Head(forwarded)
       IN  IF FindUrl(argv) # <<>>
           THEN handleAuthCallback(FindUrl(argv)[1], "second-instance", argv)
           ELSE /\ effect' = [kind |-> "ignored", argv |-> argv]
                /\ UNCHANGED <<mainWindow, localStorage, starts, callbacks, issuedState>>
                /\ UNCHANGED <<webVars, videoVars, chatVars>>

\* ipcMain.handle('test-protocol'): invoked by the renderer
TestProtocol ==
    /\ mainWindow
    /\ handleAuthCallback(Url(TRUE, "test123", "teststate", Null), "test-protocol", <<>>)
    /\ UNCHANGED forwarded

\* ------------------------------------------------------------------------
\* exchangeCodeForTokens(code), one action per await
\* ------------------------------------------------------------------------
\* const codeVerifier = await ...getItem('pkce_verifier')
ExchangeReadVerifier(cb) ==
    /\ callbacks[cb].pc = "readVerifier"
    /\ callbacks' = [callbacks EXCEPT ![cb].codeVerifier = GetItem("pkce_verifier"),
                                      ![cb].pc = "readClientId"]
    /\ effect' = NoEffect
    /\ UNCHANGED <<mainWindow, localStorage, starts, issuedState, forwarded>>
    /\ UNCHANGED <<webVars, videoVars, chatVars>>

\* const clientId = await ...getItem('oidc_client_id')
ExchangeReadClientId(cb) ==
    /\ callbacks[cb].pc = "readClientId"
    /\ callbacks' = [callbacks EXCEPT ![cb].clientId = GetItem("oidc_client_id"),
                                      ![cb].pc = "readClientSecret"]
    /\ effect' = NoEffect
    /\ UNCHANGED <<mainWindow, localStorage, starts, issuedState, forwarded>>
    /\ UNCHANGED <<webVars, videoVars, chatVars>>

\* const clientSecret = await ...getItem('oidc_client_secret'); the parameters
\* are built and fetch is called before the next await
ExchangeReadClientSecret(cb) ==
    LET clientSecret == GetItem("oidc_client_secret")
        c == callbacks[cb]
    IN  /\ c.pc = "readClientSecret"
        /\ callbacks' = [callbacks EXCEPT ![cb].pc = "fetch",
                                          ![cb].codeVerifier = Undefined,
                                          ![cb].clientId = Undefined,
                                          ![cb].posts = @ + 1]
        /\ effect' = [kind |-> "request", cb |-> cb, code |-> c.code, state |-> c.state,
                      expected |-> c.expected,
                      body |-> TokenParams(c.code, c.codeVerifier, c.clientId,
                                           clientSecret)]
        /\ UNCHANGED <<mainWindow, localStorage, starts, issuedState, forwarded>>
        /\ UNCHANGED <<webVars, videoVars, chatVars>>

\* Message chosen by exchangeCodeForTokens for a token endpoint answer
TokenResult(res) ==
    IF ~res.network
    THEN [channel |-> "auth-error", payload |-> "Failed to exchange authorization code"]
    ELSE IF res.ok
    THEN IF res.json
         THEN [channel |-> "auth-success",
               payload |-> [access_token |-> res.access_token]]
         ELSE [channel |-> "auth-error", payload |-> "Invalid token response format"]
    ELSE IF res.json
         THEN [channel |-> "auth-error",
               payload |-> IF Truthy(res.error_description) THEN res.error_description
                           ELSE IF Truthy(res.error) THEN res.error
                           ELSE "Token exchange failed"]
         ELSE [channel |-> "auth-error",
               payload |-> "Token exchange failed with invalid response"]

\* The fetch settles and the result is sent to the renderer
ExchangeRespond(cb) ==
    /\ callbacks[cb].pc = "fetch"
    /\ \E res \in TokenResponses :
          LET m == TokenResult(res)
          IN  effect' = [kind |-> "result", cb |-> cb, code |-> callbacks[cb].code,
                         state |-> callbacks[cb].state,
                         expected |-> callbacks[cb].expected, response |-> res,
                         posts |-> callbacks[cb].posts,
                         window |-> mainWindow, sent |-> Send(m.channel, m.payload)]
    /\ callbacks' = [callbacks EXCEPT ![cb] = DoneCallback]
    /\ UNCHANGED <<mainWindow, localStorage, starts, issuedState, forwarded>>
    /\ UNCHANGED <<webVars, videoVars, chatVars>>

\* ------------------------------------------------------------------------
\* ipcMain.handle('start-oidc-auth'), one action per await
\* ------------------------------------------------------------------------
\* The renderer invokes the handler; verifier and challenge are generated and
\* the verifier is written to the renderer's localStorage
StartOidcAuth ==
    LET i == Len(starts) + 1
        codeVerifier == VerifierOf(i)
    IN  /\ mainWindow
        /\ starts' = Append(starts,
               [pc |-> "register", codeVerifier |-> codeVerifier,
                codeChallenge |-> ChallengeOf(codeVerifier),
                clientId |-> Undefined, clientSecret |-> Undefined])
        /\ localStorage' = [localStorage EXCEPT !.pkce_verifier = codeVerifier]
        /\ effect' = NoEffect
        /\ UNCHANGED <<mainWindow, callbacks, issuedState, forwarded>>
        /\ UNCHANGED <<webVars, videoVars, chatVars>>

\* Mutant: the failure is reported without the server's text
RegistrationReturn_Generic(ok, errorText) ==
    IF ok THEN <<>>
    ELSE <<[success |-> FALSE, error |-> <<"Client registration failed: ", "">>]>>

\* What the handler returns right after the registration answer: nothing yet
\* on OK; on non-OK the thrown Error's message, via the catch block
RegistrationReturn(ok, errorText) ==
    IF ok THEN <<>>
    ELSE <<[success |-> FALSE, error |-> <<"Client registration failed: ", errorText>>]>>

\* The registration request is made and answered: non-OK aborts, OK yields
\* client data with or without a client_secret
StartRegister(i) ==
    /\ starts[i].pc = "register"
    /\ \E ok \in BOOLEAN, withSecret \in BOOLEAN :
          LET clientData == ClientData(i, withSecret)
              clientId == IF ok THEN clientData.client_id ELSE Undefined
              clientSecret == IF ok THEN clientData.client_secret ELSE Undefined
              errorText == IF ok THEN "" ELSE "invalid_redirect_uri"
          IN  /\ ~ok => ~withSecret
              /\ starts' = IF ok
                    THEN [starts EXCEPT ![i].pc = "storeClient",
                                        ![i].clientId = clientId,
                                        ![i].clientSecret = clientSecret]
                    ELSE [starts EXCEPT ![i] = DoneStart]
              /\ effect' = [kind |-> "registration", start |-> i, ok |-> ok,
                            client_id |-> clientId, client_secret |-> clientSecret,
                            errorText |-> errorText,
                            returned |-> RegistrationReturn(ok, errorText)]
    /\ UNCHANGED <<mainWindow, localStorage, callbacks, issuedState, forwarded>>
    /\ UNCHANGED <<webVars, videoVars, chatVars>>

\* localStorage.setItem('oidc_client_id', '${clientId}');
\* localStorage.setItem('oidc_client_secret', '${clientSecret}');
StartStoreClient(i) ==
    /\ starts[i].pc = "storeClient"
    /\ localStorage' = [localStorage EXCEPT
                           !.oidc_client_id = ToStr(starts[i].clientId),
                           !.oidc_client_secret = ToStr(starts[i].clientSecret)]
    /\ starts' = [starts EXCEPT ![i].pc = "openExternal"]
    /\ effect' = NoEffect
    /\ UNCHANGED <<mainWindow, callbacks, issuedState, forwarded>>
    /\ UNCHANGED <<webVars, videoVars, chatVars>>

\* The authorization URL is built with a fresh state and handed to the browser
StartOpenExternal(i) ==
    LET state == StateOf(i)
        authUrl == [response_type |-> "code",
                    client_id |-> ToStr(starts[i].clientId),
                    redirect_uri |-> REDIRECT_URI,
                    scope |-> "openid profile email",
                    code_challenge_method |-> "S256",
                    code_challenge |-> starts[i].codeChallenge,
                    state |-> state]
    IN  /\ starts[i].pc = "openExternal"
        /\ issuedState' = state
        /\ starts' = [starts EXCEPT ![i] = DoneStart]
        /\ effect' = [kind |-> "opened", start |-> i, authUrl |-> authUrl,
                      client_secret |-> starts[i].clientSecret,
                      returned |-> <<[success |-> TRUE, error |-> <<>>]>>]
        /\ UNCHANGED <<mainWindow, localStorage, callbacks, forwarded>>
        /\ UNCHANGED <<webVars, videoVars, chatVars>>

\* Steps of the handlers already running
AuthStep ==
    \/ \E cb \in 1..Len(callbacks) : ExchangeReadVerifier(cb)
    \/ \E cb \in 1..Len(callbacks) : ExchangeReadClientId(cb)
    \/ \E cb \in 1..Len(callbacks) : ExchangeReadClientSecret(cb)
    \/ \E cb \in 1..Len(callbacks) : ExchangeRespond(cb)
    \/ \E i \in 1..Len(starts) : StartRegister(i)
    \/ \E i \in 1..Len(starts) : StartStoreClient(i)
    \/ \E i \in 1..Len(starts) : StartOpenExternal(i)

\* ------------------------------------------------------------------------
\* Cross-context parameter relay: sign-in page (store) and consent page
\* (retrieve, consent submission).  Time is counted in minutes.
\* ------------------------------------------------------------------------
\* 5 * 60 * 1000 ms: age beyond which the consent page rejects a record
EXPIRY == 5
\* 5 * 60 * 1000 ms: delay of the sign-in page's removal timer
TIMER_DELAY == 5

\* JSON.stringify / JSON.parse of a record: the text parses back to the record;
\* text that is not JSON makes JSON.parse throw
Stringify(rec) == [json |-> TRUE, value |-> rec]
NotJson == [json |-> FALSE, value |-> <<>>]
Parses(text) == text.json
Parse(text) == text.value

\* Query strings the sign-in page may be opened with
SignInParams(client_id, redirect_uri, state) ==
    [response_type |-> "code", client_id |-> client_id, redirect_uri |-> redirect_uri,
     scope |-> "openid", code_challenge_method |-> "S256", code_challenge |-> "ch",
     state |-> state]
SignInUrls ==
    { SignInParams("c1", "app://callback", "Y"),
      SignInParams("c2", "app://callback", "Y"),
      SignInParams(Null, "app://callback", "Y"),
      SignInParams("c1", Null, "Y"),
      SignInParams("c1", "app://callback", Null),
      SignInParams("c1", "app://callback", "") }

\* Query strings the consent page may be opened with
ConsentClientIds == {Null, "c1", "c2"}
ConsentCodes == {Null, "cc"}

NoWebEffect == [kind |-> "none"]
\* null for an optional record; a present one is a one-element sequence
NoRecord == <<>>
\* localStorage without the key oauth_params; a stored text is <<text>>
NoItem == <<>>

ClosedPage ==
    [open |-> FALSE, client_id |-> Null, consent_code |-> Null, oauthParams |-> NoRecord,
     loading |-> FALSE, error |-> Null,
     pc |-> "idle", granted |-> FALSE, captured |-> NoRecord, errorData |-> <<>>,
     requests |-> <<>>]

\* ------------------------------------------------------------------------
\* Video conversion: renderer App, VideoService, preload bridge, main handlers

\* files the user can select
VideoFiles == {"a.mov", "b.mov"}

\* currentVideoPath = '' (useState<string>(''))
EmptyPath == [call |-> 0, of |-> Null]

\* `${tempDir}/video_${timestamp}.${ext}` written by the k-th handleVideoSelect:
\* the name is fresh per call, the content is the file that call was given
TempCopy(k, file) == [call |-> k, of |-> file]

\* the two IPC channels that run a conversion
ConversionKinds == {"convert-video", "optimize-for-social-media"}

\* the function progressCallback of the i-th VideoService call
ProgressCallback(i) == [fn |-> "progressCallback", conversionId |-> i]

\* onConversionProgress: the function handed to ipcRenderer.on is a new arrow
\* function that calls the callback
OnConversionProgress(ls, callback) ==
    ls \cup {[fn |-> "wrapper", conversionId |-> callback.conversionId]}

\* removeConversionProgressListener: ipcRenderer.removeListener removes the
\* registered function identical to its argument
RemoveConversionProgressListener(ls, callback) == ls \ {callback}

NoVideoEffect == [kind |-> "none"]

\* useState initial values of App; cancelPending records that the user has
\* cancelled and has not started a conversion since
InitialApp ==
    [selectedVideo |-> Null, currentVideoPath |-> EmptyPath,
     conversionStatus |-> "idle", showSuccessModal |-> FALSE,
     isProcessing |-> FALSE, conversionProgress |-> Null,
     cancelPending |-> FALSE]

NoChatEffect == [kind |-> "none"]

\* Initial state: the main process has started and has no window yet, both
\* localStorages are empty, no page is open
Init ==
    /\ mainWindow = FALSE
    /\ localStorage = [pkce_verifier |-> Null, oidc_client_id |-> Null,
                       oidc_client_secret |-> Null]
    /\ starts = <<>>
    /\ callbacks = <<>>
    /\ issuedState = Null
    /\ forwarded = <<>>
    /\ effect = NoEffect
    /\ now = 0
    /\ storage = NoItem
    /\ timers = {}
    /\ stores = 0
    /\ lastStored = NoRecord
    /\ page = ClosedPage
    /\ webEffect = NoWebEffect
    /\ listeners = {}
    /\ activeConversions = {}
    /\ services = <<>>
    /\ app = InitialApp
    /\ selects = <<>>
    /\ conversions = <<>>
    /\ videoEffect = NoVideoEffect
    /\ chatThreads = <<>>
    /\ chatMessages = {}
    /\ chatClock = 0
    /\ posts = <<>>
    /\ chatEffect = NoChatEffect

\* The clock advances
Tick ==
    /\ now' = now + 1
    /\ webEffect' = NoWebEffect
    /\ UNCHANGED <<storage, timers, stores, lastStored, page>>
    /\ UNCHANGED <<authVars, videoVars, chatVars>>

\* Mutant: the record is stored whenever a client_id is present
MustStore_ClientOnly(params) == Truthy(params.client_id)

\* if (oauthParams.client_id && oauthParams.redirect_uri && oauthParams.state)
MustStore(params) ==
    Truthy(params.client_id) /\ Truthy(params.redirect_uri) /\ Truthy(params.state)

\* Sign-in page effect: store the OAuth parameters and arm the removal timer
SignInStore ==
    \E params \in SignInUrls :
        LET oauthParams == params @@ [timestamp |-> now]
        IN  /\ stores' = stores + 1
            /\ IF MustStore(oauthParams)
               THEN /\ storage' = <<Stringify(oauthParams)>>
                    /\ timers' = timers \cup {now + TIMER_DELAY}
                    /\ lastStored' = <<oauthParams>>
               ELSE UNCHANGED <<storage, timers, lastStored>>
            /\ webEffect' = [kind |-> "store", params |-> params, at |-> now]
            /\ UNCHANGED <<now, page>>
            /\ UNCHANGED <<authVars, videoVars, chatVars>>

\* A removal timer of the sign-in page fires, at or after its deadline
SignInTimer ==
    \E deadline \in timers :
        /\ now >= deadline
        /\ storage' = NoItem
        /\ timers' = timers \ {deadline}
        /\ webEffect' = [kind |-> "timer", deadline |-> deadline]
        /\ UNCHANGED <<now, stores, lastStored, page>>
        /\ UNCHANGED <<authVars, videoVars, chatVars>>

\* The sign-in page is left (redirect to the identity provider): its timers die
SignInLeave ==
    /\ timers # {}
    /\ timers' = {}
    /\ webEffect' = NoWebEffect
    /\ UNCHANGED <<now, storage, stores, lastStored, page>>
    /\ UNCHANGED <<authVars, videoVars, chatVars>>

\* const isExpired = Date.now() - params.timestamp > 5 * 60 * 1000
IsExpired(timestamp) == now - timestamp > EXPIRY

\* Mutant: the client_id check is skipped
Accepts_AnyClient(params, client_id) == ~IsExpired(params.timestamp)

\* if (!isExpired && params.client_id === client_id)
Accepts(params, client_id) ==
    ~IsExpired(params.timestamp) /\ params.client_id = client_id

\* Consent page effect body: [result, storage afterwards]; result is the record
\* handed to setOauthParams, or none
Retrieve(client_id) ==
    IF storage = NoItem THEN [result |-> NoRecord, storage |-> storage]
    ELSE IF ~Parses(storage[1]) THEN [result |-> NoRecord, storage |-> NoItem]
    ELSE IF Accepts(Parse(storage[1]), client_id)
         THEN [result |-> <<Parse(storage[1])>>, storage |-> storage]
         ELSE [result |-> NoRecord, storage |-> NoItem]

\* The effect runs for the page q
RunRetrieve(q) ==
    LET r == Retrieve(q.client_id)
    IN  /\ page' = IF r.result # NoRecord THEN [q EXCEPT !.oauthParams = r.result]
                   ELSE q
        /\ storage' = r.storage
        /\ lastStored' = IF storage # NoItem /\ r.storage = NoItem THEN NoRecord
                         ELSE lastStored
        /\ webEffect' = [kind |-> "retrieve", client_id |-> q.client_id, stored |-> storage,
                         latest |-> lastStored, result |-> r.result]
        /\ UNCHANGED <<now, timers, stores>>
        /\ UNCHANGED <<authVars, videoVars, chatVars>>

\* The consent page is opened: the component mounts and its effect runs
ConsentOpen ==
    \E client_id \in ConsentClientIds, consent_code \in ConsentCodes :
        RunRetrieve([ClosedPage EXCEPT !.open = TRUE, !.client_id = client_id,
                                       !.consent_code = consent_code])

\* The client_id of the mounted page changes: the effect runs again
ConsentClientChange ==
    /\ page.open
    /\ \E client_id \in ConsentClientIds :
          /\ client_id # page.client_id
          /\ RunRetrieve([page EXCEPT !.client_id = client_id])

\* Answers of the consent endpoint
ConsentResponse(network, ok, json, fields) ==
    fields @@ [network |-> network, ok |-> ok, json |-> json,
               status |-> IF ok THEN "200" ELSE "400", raw |-> "",
               redirect_uri |-> Undefined, redirectURI |-> Undefined, code |-> Undefined,
               authorization_code |-> Undefined, error |-> Undefined,
               error_description |-> Undefined]
ConsentResponses ==
    { ConsentResponse(TRUE, TRUE, TRUE, [redirect_uri |-> "https://cb?code=X&state=Y"]),
      ConsentResponse(TRUE, TRUE, TRUE, [redirectURI |-> "https://cb?code=X&state=Y"]),
      ConsentResponse(TRUE, TRUE, TRUE, [code |-> "X"]),
      ConsentResponse(TRUE, TRUE, TRUE, [authorization_code |-> "X"]),
      ConsentResponse(TRUE, TRUE, TRUE, [raw |-> "{}"]),
      ConsentResponse(TRUE, TRUE, FALSE, [raw |-> "<html>"]),
      ConsentResponse(TRUE, FALSE, TRUE,
                      [error |-> "invalid_request", error_description |-> "bad consent"]),
      ConsentResponse(TRUE, FALSE, FALSE, [raw |-> "Bad Request"]),
      ConsentResponse(FALSE, FALSE, FALSE, [raw |-> ""]) }

\* a || b
Or(a, b) == IF Truthy(a) THEN a ELSE b

\* Mutant: the assembled URL carries the code but not the recovered state
RedirectTarget_NoState(data, oauthParams) ==
    IF Truthy(Or(data.redirect_uri, data.redirectURI))
    THEN <<Or(data.redirect_uri, data.redirectURI)>>
    ELSE LET redirectUri == Or(IF oauthParams = NoRecord THEN Undefined
                                ELSE oauthParams[1].redirect_uri,
                               "subclipstarter://auth/callback")
             authCode == Or(data.code, data.authorization_code)
         IN  IF Truthy(authCode)
             THEN <<redirectUri, "?code=", authCode>>
             ELSE <<redirectUri>>

\* Where the page navigates after a successful consent_code or fallback
\* submission: the response's redirect field, or a URL assembled from the
\* recovered parameters, or the bare redirect URI, or the root page
RedirectTarget(data, oauthParams) ==
    IF Truthy(Or(data.redirect_uri, data.redirectURI))
    THEN <<Or(data.redirect_uri, data.redirectURI)>>
    ELSE LET redirectUri == Or(IF oauthParams = NoRecord THEN Undefined
                                ELSE oauthParams[1].redirect_uri,
                               "subclipstarter://auth/callback")
             state == IF oauthParams = NoRecord THEN Undefined ELSE oauthParams[1].state
             authCode == Or(data.code, data.authorization_code)
         IN  IF Truthy(authCode) /\ Truthy(state)
             THEN <<redirectUri, "?code=", authCode, "&state=", state>>
             ELSE IF Truthy(redirectUri) THEN <<redirectUri>>
             ELSE <<"/">>

\* Mutant: the server's error fields are not shown
ErrorMessage_StatusOnly(errorData, status) == "HTTP " \o status \o ": An error occurred"

\* errorData.error_description || errorData.error || `HTTP ${status}: An error occurred`
ErrorMessage(errorData, status) ==
    Or(Or(errorData.error_description, errorData.error),
       "HTTP " \o status \o ": An error occurred")

\* handleConsent has returned: finally { setLoading(false) }; after an
\* assignment to window.location.href the page is left
Finished(q, response, error, location, cleared) ==
    /\ page' = IF location # <<>> THEN ClosedPage
               ELSE [q EXCEPT !.pc = "idle", !.loading = FALSE, !.error = error,
                              !.granted = FALSE, !.captured = NoRecord,
                              !.errorData = <<>>, !.requests = <<>>]
    /\ storage' = IF cleared THEN NoItem ELSE storage
    /\ lastStored' = IF cleared THEN NoRecord ELSE lastStored
    /\ webEffect' = [kind |-> "consent", requests |-> q.requests, cleared |-> cleared,
                     client_id |-> q.client_id, consent_code |-> q.consent_code,
                     oauthParams |-> q.captured, errorData |-> q.errorData,
                     response |-> response,
                     error |-> error, location |-> location]
    /\ UNCHANGED <<now, timers, stores>>
    /\ UNCHANGED <<authVars, videoVars, chatVars>>

\* Mutant: a recovered record is preferred to the consent_code
ConsentPath_StoredFirst(consent_code, oauthParams) ==
    IF oauthParams # NoRecord THEN "stored"
    ELSE IF Truthy(consent_code) THEN "first"
    ELSE "missing"

\* if (consent_code) ... else if (oauthParams) ... else ...
ConsentPath(consent_code, oauthParams) ==
    IF Truthy(consent_code) THEN "first"
    ELSE IF oauthParams # NoRecord THEN "stored"
    ELSE "missing"

\* The user presses Allow or Deny: handleConsent(granted) up to its first await
ConsentSubmit ==
    /\ page.open /\ ~page.loading
    /\ Truthy(page.client_id) \/ Truthy(page.consent_code)
    /\ \E granted \in BOOLEAN :
          LET q == [page EXCEPT !.loading = TRUE, !.error = Null, !.granted = granted,
                                !.captured = page.oauthParams, !.requests = <<>>]
              path == ConsentPath(page.consent_code, page.oauthParams)
          IN  IF path = "first"
              THEN /\ page' = [q EXCEPT !.pc = "first",
                                 !.requests = <<[accept |-> granted,
                                                 consent_code |-> page.consent_code]>>]
                   /\ webEffect' = NoWebEffect
                   /\ UNCHANGED <<now, storage, timers, stores, lastStored>>
                   /\ UNCHANGED <<authVars, videoVars, chatVars>>
              ELSE IF path = "stored"
              THEN /\ page' = [q EXCEPT !.pc = "stored",
                                 !.requests = <<[client_id |-> page.oauthParams[1].client_id,
                                      scope |-> page.oauthParams[1].scope,
                                      redirect_uri |-> page.oauthParams[1].redirect_uri,
                                      state |-> page.oauthParams[1].state,
                                      response_type |-> page.oauthParams[1].response_type,
                                      accept |-> IF granted THEN "true" ELSE "false"]>>]
                   /\ webEffect' = NoWebEffect
                   /\ UNCHANGED <<now, storage, timers, stores, lastStored>>
                   /\ UNCHANGED <<authVars, videoVars, chatVars>>
              ELSE Finished(q, <<>>,
                            "Missing OAuth parameters. Please try signing in again.",
                            <<>>, FALSE)

\* The consent_code submission is answered
ConsentFirstResponse ==
    /\ page.pc = "first"
    /\ \E res \in ConsentResponses :
          IF ~res.network \/ (res.ok /\ ~res.json)
          THEN Finished(page, <<res>>, "Failed to process consent", <<>>, FALSE)
          ELSE IF res.ok
          THEN Finished(page, <<res>>, Null, RedirectTarget(res, page.captured), TRUE)
          ELSE /\ page' = [page EXCEPT
                     !.pc = "fallback",
                     !.errorData = <<[error |-> IF res.json THEN res.error
                                                ELSE Or(res.raw, "Unknown error"),
                                      error_description |->
                                          IF res.json THEN res.error_description
                                          ELSE Undefined,
                                      status |-> res.status]>>,
                     !.requests = Append(@, [accept |-> page.granted])]
               /\ webEffect' = NoWebEffect
               /\ UNCHANGED <<now, storage, timers, stores, lastStored>>
               /\ UNCHANGED <<authVars, videoVars, chatVars>>

\* The {accept}-only fallback submission is answered
ConsentFallbackResponse ==
    /\ page.pc = "fallback"
    /\ \E res \in ConsentResponses :
          IF ~res.network \/ (res.ok /\ ~res.json)
          THEN Finished(page, <<res>>, "Failed to process consent", <<>>, FALSE)
          ELSE IF res.ok
          THEN Finished(page, <<res>>, Null, RedirectTarget(res, page.captured), TRUE)
          ELSE Finished(page, <<res>>,
                        ErrorMessage(page.errorData[1], page.errorData[1].status),
                        <<>>, FALSE)

\* The stored-parameters submission is answered
ConsentStoredResponse ==
    /\ page.pc = "stored"
    /\ \E res \in ConsentResponses :
          IF ~res.network \/ (res.ok /\ ~res.json)
          THEN Finished(page, <<res>>, "Failed to process consent", <<>>, FALSE)
          ELSE IF res.ok
          THEN Finished(page, <<res>>, Null,
                        IF Truthy(res.redirect_uri) THEN <<res.redirect_uri>> ELSE <<>>,
                        TRUE)
          ELSE Finished(page, <<res>>,
                        ErrorMessage(IF res.json THEN res
                                     ELSE [error |-> "Unknown error",
                                           error_description |-> Undefined],
                                     res.status),
                        <<>>, FALSE)

\* ------------------------------------------------------------------------
\* VideoService calls and the main-process conversion handlers

\* BrowserWindow.fromWebContents(event.sender): the sender's window or null
SenderWindows == {"window", Null}

\* if (senderWindow) activeConversions.set(conversionId, senderWindow)
SetConversion(active, conversionId, senderWindow) ==
    IF Truthy(senderWindow) THEN active \cup {conversionId} ELSE active

\* the handler's progress callback: it sends under the conversionId of its
\* own closure, and only while the map holds a window for it
ProgressSend(active, conversionId) ==
    IF conversionId \in active THEN {conversionId} ELSE {}

HandlerResult_SuccessOnly(active, conversionId, ok) ==
    [active |-> IF ok THEN active \ {conversionId} ELSE active, success |-> ok]

\* the two ends of a handler: the id is deleted after the await and in catch
HandlerResult(active, conversionId, ok) ==
    [active |-> active \ {conversionId}, success |-> ok]

\* convertToMp4 / optimizeForSocialMedia up to their await: a fresh
\* conversionId, the listener registered, the IPC call made
CallService(kind, owner) ==
    /\ listeners' = OnConversionProgress(listeners, ProgressCallback(Len(services) + 1))
    /\ services' = Append(services, [kind |-> kind, pc |-> "invoked",
                                     owner |-> owner, success |-> FALSE])

\* a caller other than handleStartConversion uses the service
ServiceCall ==
    \E kind \in ConversionKinds :
        /\ CallService(kind, 0)
        /\ videoEffect' = [kind |-> "call", conversionId |-> Len(services) + 1]
        /\ UNCHANGED <<activeConversions, app, selects, conversions>>
        /\ UNCHANGED <<authVars, webVars, chatVars>>

\* ipcMain.handle('convert-video' / 'optimize-for-social-media') up to its await
ConversionHandler ==
    \E i \in 1..Len(services) : \E senderWindow \in SenderWindows :
        /\ services[i].pc = "invoked"
        /\ activeConversions' = SetConversion(activeConversions, i, senderWindow)
        /\ services' = [services EXCEPT ![i].pc = "converting"]
        /\ videoEffect' = [kind |-> "handler", conversionId |-> i]
        /\ UNCHANGED <<listeners, app, selects, conversions>>
        /\ UNCHANGED <<authVars, webVars, chatVars>>

\* ffmpeg reports progress for conversion i; every registered listener runs,
\* and each calls its onProgress when the id is the one of its closure
ConversionProgress ==
    \E i \in 1..Len(services) :
        /\ services[i].pc = "converting"
        /\ LET sent == ProgressSend(activeConversions, i)
               heard == {j \in 1..Len(services) :
                            /\ [fn |-> "wrapper", conversionId |-> j] \in listeners
                            /\ j \in sent}
           IN  /\ app' = IF \E j \in heard : services[j].owner # 0
                         THEN [app EXCEPT !.conversionProgress = "progress"]
                         ELSE app
               /\ videoEffect' = [kind |-> "progress", producer |-> i,
                                  sent |-> sent, onProgress |-> heard]
        /\ UNCHANGED <<listeners, activeConversions, services, selects, conversions>>
        /\ UNCHANGED <<authVars, webVars, chatVars>>

\* the conversion of handler i ends or throws; the handler returns its result
HandlerReply ==
    \E i \in 1..Len(services) : \E ok \in BOOLEAN :
        /\ services[i].pc = "converting"
        /\ LET r == HandlerResult(activeConversions, i, ok)
           IN  /\ activeConversions' = r.active
               /\ services' = [services EXCEPT ![i].pc = "replied",
                                               ![i].success = r.success]
               /\ videoEffect' = [kind |-> "reply", conversionId |-> i,
                                  success |-> r.success, before |-> activeConversions]
        /\ UNCHANGED <<listeners, app, selects, conversions>>
        /\ UNCHANGED <<authVars, webVars, chatVars>>

\* the await of the service resumes: finally removes the listener, then the
\* service returns the converted path or throws
ServiceReturn ==
    \E i \in 1..Len(services) :
        /\ services[i].pc = "replied"
        /\ listeners' = RemoveConversionProgressListener(listeners, ProgressCallback(i))
        /\ services' = [services EXCEPT ![i].pc = "done"]
        /\ videoEffect' = [kind |-> "return", conversionId |-> i,
                           threw |-> ~services[i].success]
        /\ UNCHANGED <<activeConversions, app, selects, conversions>>
        /\ UNCHANGED <<authVars, webVars, chatVars>>

\* ------------------------------------------------------------------------
\* The renderer App: selecting a video, converting it, cancelling

\* handleVideoSelect up to its first await
VideoSelect ==
    \E file \in VideoFiles :
        /\ app' = [app EXCEPT !.selectedVideo = file,
                              !.conversionStatus = "idle",
                              !.currentVideoPath = EmptyPath,
                              !.isProcessing = TRUE]
        /\ selects' = Append(selects, [file |-> file, pc |-> "copying"])
        /\ videoEffect' = [kind |-> "select", call |-> Len(selects) + 1]
        /\ UNCHANGED <<listeners, activeConversions, services, conversions>>
        /\ UNCHANGED <<authVars, webVars, chatVars>>

\* getTempDir, arrayBuffer and writeFile have resolved, or one of them threw
VideoSelectCopied ==
    \E k \in 1..Len(selects) : \E ok \in BOOLEAN :
        /\ selects[k].pc = "copying"
        /\ IF ok
           THEN /\ app' = [app EXCEPT !.currentVideoPath = TempCopy(k, selects[k].file)]
                /\ selects' = [selects EXCEPT ![k].pc = "thumbnail"]
           ELSE /\ app' = [app EXCEPT !.isProcessing = FALSE]
                /\ selects' = [selects EXCEPT ![k].pc = "done"]
        /\ videoEffect' = [kind |-> "copied", call |-> k, ok |-> ok]
        /\ UNCHANGED <<listeners, activeConversions, services, conversions>>
        /\ UNCHANGED <<authVars, webVars, chatVars>>

\* extractFirstFrame and getFileUrl have resolved or thrown; finally runs
VideoSelectEnd ==
    \E k \in 1..Len(selects) :
        /\ selects[k].pc = "thumbnail"
        /\ app' = [app EXCEPT !.isProcessing = FALSE]
        /\ selects' = [selects EXCEPT ![k].pc = "done"]
        /\ videoEffect' = [kind |-> "selected", call |-> k]
        /\ UNCHANGED <<listeners, activeConversions, services, conversions>>
        /\ UNCHANGED <<authVars, webVars, chatVars>>

\* handleStartConversion up to showSaveDialog; the button is rendered while
\* the status is idle or error and a video is selected
StartConversion ==
    /\ app.conversionStatus \in {"idle", "error"}
    /\ app.selectedVideo # Null
    /\ IF app.currentVideoPath = EmptyPath
       THEN /\ videoEffect' = [kind |-> "rejected"]
            /\ UNCHANGED <<app, conversions>>
       ELSE /\ conversions' = Append(conversions,
                                     [pc |-> "dialog", selected |-> app.selectedVideo,
                                      inputPath |-> app.currentVideoPath, service |-> 0])
            /\ app' = [app EXCEPT !.cancelPending = FALSE]
            /\ videoEffect' = [kind |-> "start", selected |-> app.selectedVideo,
                               inputPath |-> app.currentVideoPath]
    /\ UNCHANGED <<listeners, activeConversions, services, selects>>
    /\ UNCHANGED <<authVars, webVars, chatVars>>

\* the save dialog closes: cancelled, or with a path
SaveDialog ==
    \E k \in 1..Len(conversions) : \E canceled \in BOOLEAN :
        /\ conversions[k].pc = "dialog"
        /\ IF canceled
           THEN /\ app' = [app EXCEPT !.isProcessing = FALSE]
                /\ conversions' = [conversions EXCEPT ![k].pc = "done"]
           ELSE /\ app' = [app EXCEPT !.conversionStatus = "processing",
                                      !.isProcessing = TRUE,
                                      !.conversionProgress = Null]
                /\ conversions' = [conversions EXCEPT ![k].pc = "tempdir"]
        /\ videoEffect' = [kind |-> "dialog", call |-> k, canceled |-> canceled]
        /\ UNCHANGED <<listeners, activeConversions, services, selects>>
        /\ UNCHANGED <<authVars, webVars, chatVars>>

\* getTempDir has resolved and VideoService.convertToMp4 is called with the
\* inputPath of the closure, or getTempDir threw
ConvertCall ==
    \E k \in 1..Len(conversions) : \E ok \in BOOLEAN :
        /\ conversions[k].pc = "tempdir"
        /\ IF ok
           THEN /\ CallService("convert-video", k)
                /\ conversions' = [conversions EXCEPT ![k].pc = "converting",
                                                      ![k].service = Len(services) + 1]
                /\ app' = app
           ELSE /\ app' = [app EXCEPT !.conversionStatus = "error",
                                      !.isProcessing = FALSE]
                /\ conversions' = [conversions EXCEPT ![k].pc = "done"]
                /\ UNCHANGED <<listeners, services>>
        /\ videoEffect' = [kind |-> "convert", call |-> k, ok |-> ok,
                           inputPath |-> conversions[k].inputPath]
        /\ UNCHANGED <<activeConversions, selects>>
        /\ UNCHANGED <<authVars, webVars, chatVars>>

\* the await of convertToMp4 resumes with the path or with the error
ConversionResume ==
    \E k \in 1..Len(conversions) :
        /\ conversions[k].pc = "converting"
        /\ services[conversions[k].service].pc = "done"
        /\ IF services[conversions[k].service].success
           THEN /\ conversions' = [conversions EXCEPT ![k].pc = "copying"]
                /\ app' = app
           ELSE /\ app' = [app EXCEPT !.conversionStatus = "error",
                                      !.isProcessing = FALSE]
                /\ conversions' = [conversions EXCEPT ![k].pc = "done"]
        /\ videoEffect' = [kind |-> "resumed", call |-> k,
                           cancelled |-> app.cancelPending]
        /\ UNCHANGED <<listeners, activeConversions, services, selects>>
        /\ UNCHANGED <<authVars, webVars, chatVars>>

\* copyFile and getFileStats have resolved, or one of them threw
ConversionFinish ==
    \E k \in 1..Len(conversions) : \E ok \in BOOLEAN :
        /\ conversions[k].pc = "copying"
        /\ app' = IF ok
                  THEN [app EXCEPT !.conversionStatus = "completed",
                                   !.showSuccessModal = TRUE,
                                   !.isProcessing = FALSE]
                  ELSE [app EXCEPT !.conversionStatus = "error",
                                   !.isProcessing = FALSE]
        /\ conversions' = [conversions EXCEPT ![k].pc = "done"]
        /\ videoEffect' = [kind |-> "finished", call |-> k, ok |-> ok,
                           cancelled |-> app.cancelPending]
        /\ UNCHANGED <<listeners, activeConversions, services, selects>>
        /\ UNCHANGED <<authVars, webVars, chatVars>>

\* handleCancelConversion; its button is rendered while the status is processing
CancelConversion ==
    /\ app.conversionStatus = "processing"
    /\ app' = [app EXCEPT !.conversionStatus = "idle",
                          !.isProcessing = FALSE,
                          !.conversionProgress = Null,
                          !.cancelPending = TRUE]
    /\ videoEffect' = [kind |-> "cancel"]
    /\ UNCHANGED <<listeners, activeConversions, services, selects, conversions>>
    /\ UNCHANGED <<authVars, webVars, chatVars>>

\* ------------------------------------------------------------------------
\* Chat messages: POST /api/chat/messages/[threadId] and ChatStorage

Users == {"u1", "u2"}

\* request bodies that pass SaveMessageSchema: id (possibly empty), role, text
Messages == [id : {"m1", ""}, role : {"user", "assistant"}, text : {Undefined, "hi"}]

\* uuidv4() of the k-th request that reaches saveMessage
Uuid(k) == <<"uuid-1", "uuid-2", "uuid-3">>[k]

\* message.id && message.id.trim() !== '' ? message.id : uuidv4()
MessageId(message, k) == IF Truthy(message.id) THEN message.id ELSE Uuid(k)

\* ChatStorage.getThread: the row with this id and this owner, or null
GetThread(threads, threadId, userId) ==
    IF threadId \in 1..Len(threads) /\ threads[threadId].userId = userId
    THEN <<threads[threadId]>>
    ELSE <<>>

\* select().from(chatMessages).where(eq(chatMessages.id, messageId)).limit(1)
SelectMessage(rows, messageId) ==
    IF \E r \in rows : r.id = messageId
    THEN <<CHOOSE r \in rows : r.id = messageId>>
    ELSE <<>>

\* ChatStorage.updateThread with a title: the row of this id and owner gets
\* the title and a new updatedAt
UpdateThread(threads, threadId, userId, title, at) ==
    IF threads[threadId].userId = userId
    THEN [threads EXCEPT ![threadId].title = title, ![threadId].updatedAt = at]
    ELSE threads

\* messageText of POST: message.text, else '' (no string content is sent)
MessageText(message) == IF Truthy(message.text) THEN message.text ELSE ""

\* a request whose response has been sent
DonePost == [pc |-> "done"]

\* ChatStorage.createThread: a thread of a user, with or without a title
CreateThread ==
    \E userId \in Users : \E title \in {Null, "Chat"} :
        /\ chatThreads' = Append(chatThreads, [userId |-> userId, title |-> title,
                                               updatedAt |-> chatClock])
        /\ chatEffect' = [kind |-> "thread", threadId |-> Len(chatThreads) + 1]
        /\ UNCHANGED <<chatMessages, chatClock, posts>>
        /\ UNCHANGED <<authVars, webVars, videoVars>>

\* POST up to the call of saveMessage: session, thread id, ownership, body
Post ==
    \E session \in Users \cup {Null} : \E threadId \in 1..MaxThreads :
    \E message \in Messages :
        LET thread == GetThread(chatThreads, threadId, session)
        IN  /\ IF session = Null
               THEN /\ chatEffect' = [kind |-> "response", status |-> 401]
                    /\ posts' = Append(posts, DonePost)
               ELSE IF thread = <<>>
               THEN /\ chatEffect' = [kind |-> "response", status |-> 404]
                    /\ posts' = Append(posts, DonePost)
               ELSE /\ chatEffect' = [kind |-> "request", threadId |-> threadId]
                    /\ posts' = Append(posts,
                           [pc |-> "select", userId |-> session,
                            threadId |-> threadId, title |-> thread[1].title,
                            message |-> message,
                            messageId |-> MessageId(message, Len(posts) + 1),
                            existing |-> <<>>, saved |-> <<>>])
            /\ UNCHANGED <<chatThreads, chatMessages, chatClock>>
            /\ UNCHANGED <<authVars, webVars, videoVars>>

\* saveMessage: the lookup of the message id has resolved
PostSelect ==
    \E k \in 1..Len(posts) :
        /\ posts[k].pc = "select"
        /\ LET existingMessage == SelectMessage(chatMessages, posts[k].messageId)
           IN  posts' = [posts EXCEPT ![k].existing = existingMessage,
                                      ![k].saved = existingMessage,
                                      ![k].pc = IF existingMessage # <<>>
                                                THEN "title" ELSE "insert"]
        /\ chatEffect' = [kind |-> "select", post |-> k]
        /\ UNCHANGED <<chatThreads, chatMessages, chatClock>>
        /\ UNCHANGED <<authVars, webVars, videoVars>>

\* saveMessage: the insert has resolved, or the primary key rejected it and
\* POST answers 500 from its catch
PostInsert ==
    \E k \in 1..Len(posts) :
        /\ posts[k].pc = "insert"
        /\ LET row == [id |-> posts[k].messageId, threadId |-> posts[k].threadId,
                       role |-> posts[k].message.role]
           IN  IF \E r \in chatMessages : r.id = row.id
               THEN /\ chatEffect' = [kind |-> "response", status |-> 500,
                                      threadId |-> posts[k].threadId]
                    /\ posts' = [posts EXCEPT ![k] = DonePost]
                    /\ UNCHANGED chatMessages
               ELSE /\ chatMessages' = chatMessages \cup {row}
                    /\ posts' = [posts EXCEPT ![k].saved = <<row>>, ![k].pc = "touch"]
                    /\ chatEffect' = [kind |-> "insert", post |-> k]
        /\ UNCHANGED <<chatThreads, chatClock>>
        /\ UNCHANGED <<authVars, webVars, videoVars>>

\* saveMessage: the thread's updatedAt is set to new Date(); time has moved
\* on since the last write
PostTouch ==
    \E k \in 1..Len(posts) :
        /\ posts[k].pc = "touch"
        /\ chatClock' = chatClock + 1
        /\ chatThreads' = [chatThreads EXCEPT ![posts[k].threadId].updatedAt = chatClock']
        /\ posts' = [posts EXCEPT ![k].pc = "title"]
        /\ chatEffect' = [kind |-> "touch", post |-> k]
        /\ UNCHANGED chatMessages
        /\ UNCHANGED <<authVars, webVars, videoVars>>

\* POST after saveMessage: the title of an untitled thread, then 201
PostRespond ==
    \E k \in 1..Len(posts) :
        /\ posts[k].pc = "title"
        /\ IF /\ ~Truthy(posts[k].title)
              /\ posts[k].message.role = "user"
              /\ Truthy(MessageText(posts[k].message))
           THEN /\ chatClock' = chatClock + 1
                /\ chatThreads' = UpdateThread(chatThreads, posts[k].threadId,
                                               posts[k].userId,
                                               MessageText(posts[k].message), chatClock')
           ELSE UNCHANGED <<chatThreads, chatClock>>
        /\ chatEffect' = [kind |-> "response", status |-> 201,
                          threadId |-> posts[k].threadId,
                          message |-> posts[k].saved[1],
                          existed |-> posts[k].existing # <<>>,
                          before |-> chatThreads[posts[k].threadId].updatedAt,
                          after |-> chatThreads'[posts[k].threadId].updatedAt]
        /\ posts' = [posts EXCEPT ![k] = DonePost]
        /\ UNCHANGED chatMessages
        /\ UNCHANGED <<authVars, webVars, videoVars>>

\* The relay over time: stores, removal timers and retrievals
NextRelay ==
    \/ now < MaxTime /\ Tick
    \/ stores < MaxStores /\ SignInStore
    \/ SignInTimer
    \/ SignInLeave
    \/ ConsentOpen
    \/ ConsentClientChange

SpecRelay == Init /\ [][NextRelay]_vars

\* Consent decisions on a page that recovered its context or did not
NextConsent ==
    \/ stores < MaxStores /\ SignInStore
    \/ ConsentOpen
    \/ ConsentClientChange
    \/ ConsentSubmit
    \/ ConsentFirstResponse
    \/ ConsentFallbackResponse
    \/ ConsentStoredResponse

SpecConsent == Init /\ [][NextConsent]_vars

\* One authorization attempt and one callback, in any interleaving
NextAuth ==
    \/ createWindow
    \/ Len(callbacks) + Len(forwarded) < MaxCallbacks /\ OpenUrl
    \/ Len(callbacks) + Len(forwarded) < MaxCallbacks /\ SecondLaunch
    \/ SecondInstance
    \/ Len(callbacks) + Len(forwarded) < MaxCallbacks /\ TestProtocol
    \/ Len(starts) < MaxStarts /\ StartOidcAuth
    \/ AuthStep

SpecAuth == Init /\ [][NextAuth]_vars

\* One authorization attempt and callbacks delivered more than once
NextRedeliver ==
    \/ createWindow
    \/ Len(callbacks) + Len(forwarded) < MaxDeliveries /\ OpenUrl
    \/ Len(callbacks) + Len(forwarded) < MaxDeliveries /\ SecondLaunch
    \/ SecondInstance
    \/ Len(callbacks) + Len(forwarded) < MaxDeliveries /\ TestProtocol
    \/ Len(starts) < MaxStarts /\ StartOidcAuth
    \/ AuthStep

SpecRedeliver == Init /\ [][NextRedeliver]_vars

\* Overlapping authorization attempts and one callback
NextOverlap ==
    \/ createWindow
    \/ Len(callbacks) < MaxCallbacks /\ OpenUrl
    \/ Len(starts) < MaxOverlap /\ StartOidcAuth
    \/ AuthStep

SpecOverlap == Init /\ [][NextOverlap]_vars

\* VideoService calls, sequential and overlapping, and their handlers
NextConversion ==
    \/ Len(services) < MaxConversions /\ ServiceCall
    \/ ConversionHandler
    \/ ConversionProgress
    \/ HandlerReply
    \/ ServiceReturn

SpecConversion == Init /\ [][NextConversion]_vars

\* The App: overlapping selections of a video, then a conversion
NextSelect ==
    \/ Len(selects) < MaxSelects /\ VideoSelect
    \/ VideoSelectCopied
    \/ VideoSelectEnd
    \/ Len(conversions) < MaxOthers /\ StartConversion
    \/ SaveDialog
    \/ ConvertCall
    \/ ConversionHandler
    \/ ConversionProgress
    \/ HandlerReply
    \/ ServiceReturn
    \/ ConversionResume
    \/ ConversionFinish

SpecSelect == Init /\ [][NextSelect]_vars

\* The App: a selected video, conversions and their cancellation
NextCancel ==
    \/ Len(selects) < MaxOthers /\ VideoSelect
    \/ VideoSelectCopied
    \/ VideoSelectEnd
    \/ Len(conversions) < MaxAppConversions /\ StartConversion
    \/ SaveDialog
    \/ ConvertCall
    \/ ConversionHandler
    \/ ConversionProgress
    \/ HandlerReply
    \/ ServiceReturn
    \/ ConversionResume
    \/ ConversionFinish
    \/ CancelConversion

SpecCancel == Init /\ [][NextCancel]_vars

\* Threads of two users and overlapping POSTs of messages
NextChat ==
    \/ Len(chatThreads) < MaxThreads /\ CreateThread
    \/ Len(posts) < MaxPosts /\ Post
    \/ PostSelect
    \/ PostInsert
    \/ PostTouch
    \/ PostRespond

SpecChat == Init /\ [][NextChat]_vars

\* ------------------------------------------------------------------------
\* Claims about the protocol callback listener and the token exchange
\* ------------------------------------------------------------------------
AuthError(text) == <<[channel |-> "auth-error", payload |-> text]>>

\* C1: a callback whose state differs from the state issued by the most recent
\* start-oidc-auth is discarded: it causes no token request and no auth-success
\* or auth-error result.
C1_StaleCallbackDiscarded ==
    (effect.kind \in {"request", "result"} /\ effect.expected # Null)
        => effect.state = effect.expected

\* C2: callback handling is idempotent per state value: when the callback of
\* the outstanding attempt is delivered again, no second token exchange is
\* started for the same code and state.
C2_IdempotentPerState ==
    \A a, b \in 1..Len(callbacks) :
        (/\ a # b
         /\ callbacks[a].pc # "done" /\ callbacks[b].pc # "done"
         /\ callbacks[a].state = callbacks[a].expected)
            => <<callbacks[a].code, callbacks[a].state>>
                 # <<callbacks[b].code, callbacks[b].state>>

\* The delivery just handled carried a non-empty error parameter
DeniedDelivery ==
    effect.kind = "callback" /\ effect.url.parses /\ Truthy(effect.url.error)

NoErrorDelivery ==
    effect.kind = "callback" /\ effect.url.parses /\ effect.url.error = Null

C10_SecretOnlyIfRegistered ==
    (/\ effect.kind = "request"
     /\ effect.expected # Null
     /\ effect.body.client_id \in RegisteredIds) =>
        LET secret == RegisteredSecret(effect.body.client_id)
        IN  IF secret = Undefined
            THEN "client_secret" \notin DOMAIN effect.body
            ELSE /\ "client_secret" \in DOMAIN effect.body
                 /\ effect.body.client_secret = secret

\* The token endpoint just answered the exchange of callback effect.cb
TokenAnswered == effect.kind = "result" /\ effect.response.network

\* C11: on a non-OK token response the auth-error message is the body's
\* error_description if present, else the body's error, else the raw response
\* body, else the HTTP status.
C11_ErrorMessagePriority ==
    (TokenAnswered /\ ~effect.response.ok /\ effect.window) =>
        LET res == effect.response
        IN  effect.sent = AuthError(
                IF res.json /\ Truthy(res.error_description) THEN res.error_description
                ELSE IF res.json /\ Truthy(res.error) THEN res.error
                ELSE IF res.raw # "" THEN res.raw
                ELSE res.status)

\* C12: an OK token response yields auth-success only if its body is a JSON
\* object with an access_token; an OK response that is not JSON, or is JSON
\* without an access_token, yields auth-error.
C12_SuccessNeedsTokenSchema ==
    (TokenAnswered /\ effect.response.ok /\ effect.window) =>
        /\ Len(effect.sent) = 1
        /\ effect.sent[1].channel =
              IF effect.response.json /\ Truthy(effect.response.access_token)
              THEN "auth-success" ELSE "auth-error"

C14_RegistrationFailureAborts ==
    [][(effect'.kind = "registration" /\ ~effect'.ok) =>
          /\ starts'[effect'.start] = DoneStart
          /\ localStorage' = localStorage
          /\ issuedState' = issuedState
          /\ Len(effect'.returned) = 1
          /\ ~effect'.returned[1].success
          /\ effect'.returned[1].error[2] = effect'.errorText
          /\ effect'.errorText # ""]_vars

\* A registration was refused after the verifier had been stored
C14_Witness ==
    /\ effect.kind = "registration" /\ ~effect.ok
    /\ starts[effect.start] = DoneStart
    /\ localStorage.pkce_verifier = VerifierOf(effect.start)
    /\ localStorage.oidc_client_id = Null
    /\ issuedState = Null

AttemptEnded ==
    \/ effect.kind = "result"
    \/ effect.kind = "registration" /\ ~effect.ok
    \/ effect.kind = "callback" /\ effect.outcome \in {"Denied", "Malformed"}

\* C23: once an authorization attempt has ended (exchange completed, or the
\* attempt abandoned), the stored pkce_verifier is no longer readable.
C23_VerifierDestroyed ==
    AttemptEnded => localStorage.pkce_verifier = Null

\* The attempt a stored or transmitted value belongs to (0: none)
AttemptOfVerifier(v) ==
    IF \E i \in 1..Len(starts) : VerifierOf(i) = v
    THEN CHOOSE i \in 1..Len(starts) : VerifierOf(i) = v ELSE 0
AttemptOfClient(c) ==
    IF \E i \in 1..Len(starts) : c \in {PublicIds[i], ConfidentialIds[i]}
    THEN CHOOSE i \in 1..Len(starts) : c \in {PublicIds[i], ConfidentialIds[i]} ELSE 0

\* C24: after two overlapping start-oidc-auth invocations have both returned,
\* the verifier and the client id that a token exchange reads from storage
\* belong to the same authorization attempt.
C24_SameAttempt ==
    (/\ effect.kind = "request"
     /\ \A i \in 1..Len(starts) : starts[i] = DoneStart
     /\ effect.body.code_verifier = ToStr(localStorage.pkce_verifier)
     /\ effect.body.client_id = ToStr(localStorage.oidc_client_id)
     /\ AttemptOfVerifier(effect.body.code_verifier) # 0
     /\ AttemptOfClient(effect.body.client_id) # 0) =>
        AttemptOfVerifier(effect.body.code_verifier)
            = AttemptOfClient(effect.body.client_id)

\* C25: a token request is never built from a missing verifier or client id:
\* a callback that arrives when no attempt has stored them, or before the main
\* window exists, causes no token POST.
C25_NoPostFromMissingValues ==
    effect.kind = "request" =>
        /\ effect.body.code_verifier \notin {"null", "undefined"}
        /\ effect.body.client_id \notin {"null", "undefined"}

\* ------------------------------------------------------------------------
\* Claims about the parameter relay between sign-in page and consent page
\* ------------------------------------------------------------------------
\* The consent page's effect just ran against a stored record
RetrievedStored ==
    /\ webEffect.kind = "retrieve"
    /\ webEffect.stored # NoItem
    /\ Parses(webEffect.stored[1])

\* C5: a retrieve whose current client_id differs from the stored record's
\* client_id returns no record, even when the record is younger than five
\* minutes, and leaves storage without the oauth_params key; a consent URL
\* without client_id is such a retrieve.
C5_MismatchPurges ==
    (RetrievedStored /\ Parse(webEffect.stored[1]).client_id # webEffect.client_id) =>
        /\ webEffect.result = NoRecord
        /\ storage = NoItem

\* A consent URL without client_id met a record younger than five minutes
C5_Witness ==
    /\ RetrievedStored
    /\ webEffect.client_id = Null
    /\ now - Parse(webEffect.stored[1]).timestamp < EXPIRY
    /\ webEffect.result = NoRecord
    /\ storage = NoItem

\* C6: after any further stores and timer firings, retrieve(c) returns the
\* most recently stored record of client c while that record is younger than
\* five minutes, and returns none and leaves storage without the key once it
\* is older than five minutes.
C6_LatestRecordWithinTtl ==
    (/\ webEffect.kind = "retrieve"
     /\ webEffect.latest # NoRecord
     /\ webEffect.latest[1].client_id = webEffect.client_id) =>
        /\ now - webEffect.latest[1].timestamp < EXPIRY
              => webEffect.result = webEffect.latest
        /\ now - webEffect.latest[1].timestamp > EXPIRY
              => webEffect.result = NoRecord /\ storage = NoItem

\* C7: a retrieve performed when the stored record is exactly five minutes
\* old, or older, returns no record and purges the key.
C7_InvalidFromFiveMinutes ==
    (RetrievedStored /\ now - Parse(webEffect.stored[1]).timestamp >= EXPIRY) =>
        /\ webEffect.result = NoRecord
        /\ storage = NoItem

\* C8: a store step writes {params, timestamp: now} under oauth_params and
\* arms the removal timer when client_id, redirect_uri and state are all
\* present (non-empty); when one of them is missing it leaves storage and the
\* set of armed timers as they were.
C8_StoreFrame ==
    [][webEffect'.kind = "store" =>
          LET params == webEffect'.params
          IN  IF /\ Truthy(params.client_id)
                 /\ Truthy(params.redirect_uri)
                 /\ Truthy(params.state)
              THEN /\ storage' = <<Stringify(params @@ [timestamp |-> now])>>
                   /\ (now + TIMER_DELAY) \in timers'
              ELSE /\ storage' = storage
                   /\ timers' = timers]_vars

\* A store without state ran while an earlier record and its timer were in place
C8_Witness ==
    /\ webEffect.kind = "store"
    /\ webEffect.params.state = Null
    /\ storage # NoItem
    /\ Parse(storage[1]).timestamp < webEffect.at
    /\ timers # {}

\* C9: after every submitted consent decision, accepted or rejected by the
\* endpoint or failed by a network error, storage is without the oauth_params
\* key.
C9_ClearedAfterDecision ==
    (webEffect.kind = "consent" /\ webEffect.requests # <<>>) => storage = NoItem

\* C19: whenever the consent page holds a recovered context, its client_id
\* equals the client_id of the current request and it was younger than five
\* minutes when it was retrieved; a record rejected by the check is not held
\* afterwards.
C19_HeldContextIsValid ==
    /\ (page.open /\ page.oauthParams # NoRecord) =>
           page.oauthParams[1].client_id = page.client_id
    /\ (webEffect.kind = "retrieve" /\ webEffect.result # NoRecord) =>
           now - webEffect.result[1].timestamp < EXPIRY

\* ------------------------------------------------------------------------
\* Claims about the redirect after a consent decision
\* ------------------------------------------------------------------------
\* handleConsent just ended on a successful (OK, JSON) answer
ConsentSucceeded ==
    /\ webEffect.kind = "consent"
    /\ webEffect.response # <<>>
    /\ webEffect.response[1].network
    /\ webEffect.response[1].ok
    /\ webEffect.response[1].json

\* The decision was submitted with the consent_code (first request), possibly
\* followed by the {accept}-only fallback request
ViaConsentCode ==
    webEffect.requests # <<>> /\ "consent_code" \in DOMAIN webEffect.requests[1]

\* The successful answer names no redirect target
NoRedirectField ==
    /\ ~Truthy(webEffect.response[1].redirect_uri)
    /\ ~Truthy(webEffect.response[1].redirectURI)

\* C15: when a successful consent answer has no redirect field but carries a
\* code, and the page recovered a record with redirect_uri R and state S, the
\* page navigates to exactly R?code=<code>&state=S, on the consent_code
\* submission and on the fallback submission alike.
C15_AssembledRedirect ==
    (/\ ConsentSucceeded /\ ViaConsentCode /\ NoRedirectField
     /\ Truthy(webEffect.response[1].code)
     /\ webEffect.oauthParams # NoRecord) =>
        webEffect.location =
            <<webEffect.oauthParams[1].redirect_uri, "?code=",
              webEffect.response[1].code, "&state=", webEffect.oauthParams[1].state>>

\* The fallback submission was answered with a code only and a record was held
C15_Witness ==
    /\ ConsentSucceeded /\ ViaConsentCode /\ NoRedirectField
    /\ Len(webEffect.requests) = 2
    /\ webEffect.response[1].code = "X"
    /\ webEffect.location = <<"app://callback", "?code=", "X", "&state=", "Y">>

\* C16: on every submission path a successful answer carrying the redirect
\* target in redirect_uri and one carrying it in redirectURI lead to
\* navigation to that same target.
C16_BothRedirectFields ==
    (ConsentSucceeded /\ ~NoRedirectField) =>
        webEffect.location =
            <<Or(webEffect.response[1].redirect_uri, webEffect.response[1].redirectURI)>>

\* C17: when a successful answer has no redirect field and no redirect can be
\* assembled (no code in the body, or no recovered record), the page
\* navigates to the root page '/'.
C17_RootFallback ==
    (/\ ConsentSucceeded /\ ViaConsentCode /\ NoRedirectField
     /\ \/ ~Truthy(Or(webEffect.response[1].code,
                      webEffect.response[1].authorization_code))
        \/ webEffect.oauthParams = NoRecord) =>
        webEffect.location = <<"/">>

\* The message handleConsent shows for a parsed error body and a status
ShownError(errorData) ==
    IF Truthy(errorData.error_description) THEN errorData.error_description
    ELSE IF Truthy(errorData.error) THEN errorData.error
    ELSE "HTTP " \o errorData.status \o ": An error occurred"

\* C21: a decision with a consent_code first submits {accept, consent_code};
\* only after a non-OK answer to it does the page submit one fallback request
\* carrying only {accept}, with the same boolean; it never sends more than two
\* requests, and when the fallback is answered non-OK too the error shown is
\* the one of the first answer.
C21_OneFallback ==
    /\ page.pc = "first" =>
           /\ Len(page.requests) = 1 /\ page.errorData = <<>>
           /\ page.requests[1] = [accept |-> page.granted,
                                  consent_code |-> page.consent_code]
    /\ page.pc = "fallback" =>
           /\ Len(page.requests) = 2 /\ page.errorData # <<>>
           /\ page.errorData[1].status # "200"
           /\ page.requests[2] = [accept |-> page.requests[1].accept]
    /\ (webEffect.kind = "consent" /\ ViaConsentCode) =>
           /\ Len(webEffect.requests) \in {1, 2}
           /\ DOMAIN webEffect.requests[1] = {"accept", "consent_code"}
           /\ Len(webEffect.requests) = 2 <=> webEffect.errorData # <<>>
           /\ Len(webEffect.requests) = 2 =>
                  webEffect.requests[2] = [accept |-> webEffect.requests[1].accept]
           /\ (/\ Len(webEffect.requests) = 2
               /\ webEffect.response[1].network
               /\ ~webEffect.response[1].ok) =>
                  /\ webEffect.error = ShownError(webEffect.errorData[1])
                  /\ webEffect.location = <<>>

\* Both requests were refused, with different bodies, and the first one's
\* description is shown
C21_Witness ==
    /\ webEffect.kind = "consent" /\ ViaConsentCode
    /\ Len(webEffect.requests) = 2
    /\ webEffect.errorData[1].error_description = "bad consent"
    /\ webEffect.response[1].raw = "Bad Request"
    /\ webEffect.error = "bad consent"

\* C22: with a consent_code the decision always goes through the consent_code
\* path, whether or not a record was recovered; the stored-parameters
\* submission is used only without a consent_code and with a recovered record;
\* with neither the page shows the missing-parameters error and sends nothing.
C22_ConsentCodePrecedence ==
    /\ page.pc \in {"first", "fallback"} => Truthy(page.consent_code)
    /\ page.pc = "stored" => ~Truthy(page.consent_code) /\ page.captured # NoRecord
    /\ webEffect.kind = "consent" =>
           IF Truthy(webEffect.consent_code) THEN ViaConsentCode
           ELSE IF webEffect.oauthParams # NoRecord
           THEN /\ Len(webEffect.requests) = 1
                /\ "consent_code" \notin DOMAIN webEffect.requests[1]
                /\ webEffect.requests[1].client_id = webEffect.oauthParams[1].client_id
                /\ webEffect.requests[1].state = webEffect.oauthParams[1].state
           ELSE /\ webEffect.requests = <<>>
                /\ webEffect.location = <<>>
                /\ webEffect.error =
                      "Missing OAuth parameters. Please try signing in again."

\* A decision was submitted with a consent_code while a record was held
C22_Witness ==
    /\ webEffect.kind = "consent" /\ ViaConsentCode
    /\ Truthy(webEffect.consent_code)
    /\ webEffect.oauthParams # NoRecord

\* C20: when the page holds no recovered context, a consent decision never
\* navigates to a redirect built from partial context: it navigates only to a
\* target named by the answer, or stays and reports an error.
C20_NoPartialContextRedirect ==
    (webEffect.kind = "consent" /\ webEffect.oauthParams = NoRecord) =>
        IF webEffect.location = <<>>
        THEN webEffect.error # Null
        ELSE /\ ConsentSucceeded
             /\ ~NoRedirectField
             /\ webEffect.location =
                   <<Or(webEffect.response[1].redirect_uri,
                        webEffect.response[1].redirectURI)>>

\* ------------------------------------------------------------------------
\* Claims about the video conversion

\* C26: after convertToMp4 or optimizeForSocialMedia has returned or thrown,
\* the conversion-progress listener it registered is no longer registered;
\* once every conversion so far has returned, no listener is registered
C26_ListenerRemoved ==
    /\ \A i \in 1..Len(services) :
           services[i].pc = "done" =>
               [fn |-> "wrapper", conversionId |-> i] \notin listeners
    /\ (\A i \in 1..Len(services) : services[i].pc = "done") => listeners = {}

\* C27: the activeConversions map holds only conversions whose handler is
\* awaiting its conversion; once every handler has returned the map is empty;
\* a progress event is sent only under the conversionId of its producer
C27_OnlyInFlight ==
    /\ activeConversions \subseteq
           {i \in 1..Len(services) : services[i].pc = "converting"}
    /\ (\A i \in 1..Len(services) : services[i].pc \in {"replied", "done"}) =>
           activeConversions = {}
    /\ videoEffect.kind = "progress" => videoEffect.sent \subseteq {videoEffect.producer}

\* a conversion failed while two overlapping conversions were in the map
C27_Witness ==
    /\ videoEffect.kind = "reply"
    /\ ~videoEffect.success
    /\ Cardinality(videoEffect.before) = 2
    /\ activeConversions # {}

\* C28: from a cancellation until the user starts a new conversion, the
\* conversion status stays idle and no step shows the success modal: the end
\* of the cancelled conversion changes neither
C28_CancelHolds ==
    [][(app.cancelPending /\ app'.cancelPending) =>
           /\ app'.conversionStatus = "idle"
           /\ app'.showSuccessModal => app.showSuccessModal]_vars

\* every handleVideoSelect so far has finished
SelectsFinished == \A k \in 1..Len(selects) : selects[k].pc = "done"

\* C29: once all handleVideoSelect calls have finished, currentVideoPath is
\* the temporary copy of the file held in selectedVideo, and a conversion
\* started then converts the copy of the selected video
C29_PathOfSelected ==
    SelectsFinished =>
        /\ app.currentVideoPath # EmptyPath => app.currentVideoPath.of = app.selectedVideo
        /\ videoEffect.kind = "start" => videoEffect.inputPath.of = videoEffect.selected

\* ------------------------------------------------------------------------
\* Claims about the chat API

\* C30: a POST never fails with a server error, not even when two requests
\* save the same new id at once; the message it returns belongs to the
\* thread of the request; and when the id already existed the request leaves
\* the thread's updatedAt alone; each id has at most one row
C30_IdempotentConfined ==
    /\ \A r1, r2 \in chatMessages : r1.id = r2.id => r1 = r2
    /\ chatEffect.kind = "response" =>
           /\ chatEffect.status # 500
           /\ chatEffect.status = 201 =>
                  /\ chatEffect.message.threadId = chatEffect.threadId
                  /\ chatEffect.existed => chatEffect.after = chatEffect.before

====
